---- MODULE Spec2Model ----
(***************************************************************************)
(* Smith-Waterman alignment engine of pgfp/align:                          *)
(*   SmithWaterman                (align/smith_waterman.go)                *)
(*   ParallelSmithWaterman        (align/parallel_smith_waterman.go)       *)
(*   ConcurrentSmithWatermanBatch (align/parallel_smith_waterman.go)       *)
(*                                                                         *)
(* A Go string s is a TLA+ sequence of one-character strings, so the Go    *)
(* byte s[k-1] is s[k] here.  A score matrix is a function                 *)
(* [0..m -> [0..n -> Int]], matrix[i][j] as in the source.                 *)
(***************************************************************************)
EXTENDS Integers, Sequences, FiniteSets, TLC, Bags

\* ------------------------------------------------------------------------
\* Bounds of the model
\* ------------------------------------------------------------------------

\* longest query / reference handed to SmithWaterman
MaxLen == 3

\* longest query handed to ParallelSmithWaterman
MaxParQueryLen == 2

\* longest reference handed to ParallelSmithWaterman
MaxParRefLen == 2

\* longest query / reference handed to ConcurrentSmithWatermanBatch
MaxBatchLen == 1

\* largest number of references handed to ConcurrentSmithWatermanBatch
MaxRefs == 2

\* largest numWorkers argument of ConcurrentSmithWatermanBatch; it is kept
\* below GoMaxProcs, so that a call running with more than MaxBatchWorkers
\* permits is known to run with the default
MaxBatchWorkers == 1

\* what runtime.GOMAXPROCS(0) returns in the modelled process
GoMaxProcs == 2

\* Length below which ParallelSmithWaterman delegates to SmithWaterman.  The
\* source compares both lengths with the literal 50
\* (parallel_smith_waterman.go:37); the model scales that length down, so
\* that the wavefront path runs on matrices whose interleavings TLC can
\* enumerate.  Nothing else in the code depends on the value.
Threshold == 2

\* ------------------------------------------------------------------------
\* Scoring parameters (smith_waterman.go:4-8)
\* ------------------------------------------------------------------------
MatchScore == 2

\* MismatchScore that rewards a mismatch, with one less than a match
MismatchScore_Reward == MatchScore - 1

MismatchScore == 0 - 1

\* GapPenalty as small as MismatchScore
GapPenalty_AsMismatch == 0 - 1

GapPenalty == 0 - 2

\* the gap marker written by traceback
Gap == "-"

\* the symbols sequences are drawn from
Alphabet == {"A", "C", "G"}

\* the symbols the inputs of ParallelSmithWaterman are drawn from
ParAlphabet == {"A", "C"}

\* the symbols the inputs of ConcurrentSmithWatermanBatch are drawn from
BatchAlphabet == {"A", "C"}

\* the numWorkers arguments of ParallelSmithWaterman: negative, zero, one
\* worker per processor (the code never reads numWorkers after normalising it)
ParWorkerArgs == {0 - 1, 0, GoMaxProcs}

\* the inputs of TestSmithWaterman (smith_waterman_test.go:19-69)
GATTACA == <<"G", "A", "T", "T", "A", "C", "A">>

TestCases ==
    { <<GATTACA, GATTACA>>,
      <<GATTACA, <<"G", "A", "T", "T", "T", "C", "A">> >>,
      <<GATTACA, <<"G", "A", "T", "A", "C", "A">> >>,
      <<GATTACA, <<"G", "A", "T", "T", "C", "A">> >>,
      <<GATTACA, <<"G", "A", "T", "X", "X", "X", "X">> >>,
      <<GATTACA, <<"X", "X", "X", "X", "A", "C", "A">> >>,
      <<(<<"X", "X">> \o GATTACA \o <<"X", "X">>),
        (<<"Y", "Y">> \o GATTACA \o <<"Y", "Y">>)>> }

RECURSIVE SeqsUpTo(_, _)
SeqsUpTo(S, n) ==
    IF n = 0 THEN {<<>>}
    ELSE LET shorter == SeqsUpTo(S, n - 1)
         IN  shorter \cup {Append(s, c) : s \in shorter, c \in S}

\* the (query, reference) pair of demonstrateLocalAlignment: the pattern and
\* prefix + pattern + suffix
LocalAlignmentDemo ==
    <<GATTACA,
      <<"X", "X", "X", "X", "X", "X">> \o GATTACA
          \o <<"Y", "Y", "Y", "Y", "Y", "Y">> >>

\* CreateDeletion(original, position, length): original without the length
\* symbols from the 0-based position on, or original itself when the
\* position is outside it
CreateDeletion(original, position, length) ==
    IF position < 0 \/ position >= Len(original) THEN original
    ELSE LET len == IF position + length > Len(original)
                    THEN Len(original) - position ELSE length
         IN  SubSeq(original, 1, position)
                 \o SubSeq(original, position + len + 1, Len(original))

\* the (query, reference) pair of demonstrateDeletion, with the first seven
\* symbols of its reference and one symbol deleted at position 3 (the
\* demonstration deletes 4 of 31 symbols at position 12)
DeletionDemo == <<CreateDeletion(GATTACA, 3, 1), GATTACA>>

\* the (query, reference) pairs handed to SmithWaterman: every pair of
\* sequences up to MaxLen, the pairs of the test suite and the pairs of the
\* demonstrations
SWInputs ==
    (SeqsUpTo(Alphabet, MaxLen) \X SeqsUpTo(Alphabet, MaxLen))
        \cup TestCases \cup {LocalAlignmentDemo, DeletionDemo}

\* ------------------------------------------------------------------------
\* Pure functions of smith_waterman.go
\* ------------------------------------------------------------------------

\* matrix := make([][]int, m+1); matrix[i] = make([]int, n+1)
ZeroMatrix(m, n) == [i \in 0..m |-> [j \in 0..n |-> 0]]

RECURSIVE smithMaxLoop(_, _, _)
smithMaxLoop(values, k, maxVal) ==
    IF k > Len(values) THEN maxVal
    ELSE smithMaxLoop(values, k + 1,
                      IF values[k] > maxVal THEN values[k] ELSE maxVal)

\* smithMax whose loop ranges over values[2:]
smithMax_SkipsSecond(values) == smithMaxLoop(values, 3, values[1])

\* smithMax(values ...int): maxVal := values[0]; keep the larger of each next
smithMax(values) == smithMaxLoop(values, 2, values[1])

\* matchOf with the comparison inverted
matchOf_Inverted(q, r, i, j) == IF q[i] # r[j] THEN MatchScore ELSE MismatchScore

\* match := MismatchScore; if query[i-1] == reference[j-1] { match = MatchScore }
matchOf(q, r, i, j) == IF q[i] = r[j] THEN MatchScore ELSE MismatchScore

\* cellScore without the 0 among the candidates
cellScore_NoClip(diag, up, left, match) ==
    smithMax(<<diag + match, up + GapPenalty, left + GapPenalty>>)

\* cellScore with scoreLeft charged the mismatch score instead of the gap
\* penalty
cellScore_LeftMismatch(diag, up, left, match) ==
    smithMax(<<0, diag + match, up + GapPenalty, left + MismatchScore>>)

\* scoreDiag, scoreUp, scoreLeft and the clipped maximum, from the three
\* neighbour values the code has read
cellScore(diag, up, left, match) ==
    smithMax(<<0, diag + match, up + GapPenalty, left + GapPenalty>>)

\* FillCell that also takes a cell equal to the running maximum
FillCell_TakesEqual(st, q, r, i, j) ==
    LET v  == cellScore(st.matrix[i-1][j-1], st.matrix[i-1][j],
                        st.matrix[i][j-1], matchOf(q, r, i, j))
        mx == [st.matrix EXCEPT ![i][j] = v]
    IN  IF v >= st.maxScore
        THEN [matrix |-> mx, maxScore |-> v, maxRow |-> i, maxCol |-> j]
        ELSE [st EXCEPT !.matrix = mx]

\* One iteration of the inner fill loop on the fill state
\* st = [matrix, maxScore, maxRow, maxCol].
FillCell(st, q, r, i, j) ==
    LET v  == cellScore(st.matrix[i-1][j-1], st.matrix[i-1][j],
                        st.matrix[i][j-1], matchOf(q, r, i, j))
        mx == [st.matrix EXCEPT ![i][j] = v]
    IN  IF v > st.maxScore
        THEN [matrix |-> mx, maxScore |-> v, maxRow |-> i, maxCol |-> j]
        ELSE [st EXCEPT !.matrix = mx]

\* FillInit with the running maximum started at a sentinel below every score
FillInit_Sentinel(q, r) ==
    [matrix |-> ZeroMatrix(Len(q), Len(r)),
     maxScore |-> 0 - 1, maxRow |-> 0, maxCol |-> 0]

\* the fill state before the first cell
FillInit(q, r) ==
    [matrix |-> ZeroMatrix(Len(q), Len(r)),
     maxScore |-> 0, maxRow |-> 0, maxCol |-> 0]

RECURSIVE FillRowFrom(_, _, _, _, _)
\* the inner loop from j on: for ; j <= n; j++ { ... }.  The test
\* cell = cell has the iteration evaluated before the next one is entered, so
\* that the evaluation does not nest as deep as the matrix has cells.
FillRowFrom(st, q, r, i, j) ==
    IF j > Len(r) THEN st
    ELSE LET cell == FillCell(st, q, r, i, j)
         IN  IF cell = cell THEN FillRowFrom(cell, q, r, i, j + 1) ELSE cell

RECURSIVE FillFrom(_, _, _, _)
\* the outer loop from i on: for ; i <= m; i++ { for j := 1; ... }, with
\* the same test on the row
FillFrom(st, q, r, i) ==
    IF i > Len(q) THEN st
    ELSE LET row == FillRowFrom(st, q, r, i, 1)
         IN  IF row = row THEN FillFrom(row, q, r, i + 1) ELSE row

\* The traceback state is t = [row, col, alignedQuery, alignedRef].

\* tracebackCond that leaves the loop one row early
tracebackCond_StopsAtRowOne(mx, t) ==
    t.row > 1 /\ t.col > 0 /\ mx[t.row][t.col] > 0

\* Loop condition of traceback.
tracebackCond(mx, t) == t.row > 0 /\ t.col > 0 /\ mx[t.row][t.col] > 0

\* tracebackBranch without the else-if for the left term
tracebackBranch_NoLeft(mx, q, r, t) ==
    LET currentScore == mx[t.row][t.col]
        match        == matchOf(q, r, t.row, t.col)
    IN  IF currentScore = mx[t.row - 1][t.col - 1] + match THEN "diag"
        ELSE IF currentScore = mx[t.row - 1][t.col] + GapPenalty THEN "up"
        ELSE "break"

\* tracebackBranch that tries the up term first
tracebackBranch_UpFirst(mx, q, r, t) ==
    LET currentScore == mx[t.row][t.col]
        match        == matchOf(q, r, t.row, t.col)
    IN  IF currentScore = mx[t.row - 1][t.col] + GapPenalty THEN "up"
        ELSE IF currentScore = mx[t.row - 1][t.col - 1] + match THEN "diag"
        ELSE IF currentScore = mx[t.row][t.col - 1] + GapPenalty THEN "left"
        ELSE "break"

\* which branch of the if/else-if chain of traceback is taken
tracebackBranch(mx, q, r, t) ==
    LET currentScore == mx[t.row][t.col]
        match        == matchOf(q, r, t.row, t.col)
    IN  IF currentScore = mx[t.row - 1][t.col - 1] + match THEN "diag"
        ELSE IF currentScore = mx[t.row - 1][t.col] + GapPenalty THEN "up"
        ELSE IF currentScore = mx[t.row][t.col - 1] + GapPenalty THEN "left"
        ELSE "break"

\* tracebackMove whose up branch writes the gap marker on both sides
tracebackMove_DoubleGap(mx, q, r, t) ==
    LET b == tracebackBranch(mx, q, r, t)
    IN  IF b = "diag"
        THEN [row |-> t.row - 1, col |-> t.col - 1,
              alignedQuery |-> <<q[t.row]>> \o t.alignedQuery,
              alignedRef   |-> <<r[t.col]>> \o t.alignedRef]
        ELSE IF b = "up"
        THEN [row |-> t.row - 1, col |-> t.col,
              alignedQuery |-> <<Gap>> \o t.alignedQuery,
              alignedRef   |-> <<Gap>> \o t.alignedRef]
        ELSE [row |-> t.row, col |-> t.col - 1,
              alignedQuery |-> <<Gap>> \o t.alignedQuery,
              alignedRef   |-> <<r[t.col]>> \o t.alignedRef]

\* tracebackMove whose diagonal branch writes a gap marker for the
\* reference symbol
tracebackMove_DiagonalGap(mx, q, r, t) ==
    LET b == tracebackBranch(mx, q, r, t)
    IN  IF b = "diag"
        THEN [row |-> t.row - 1, col |-> t.col - 1,
              alignedQuery |-> <<q[t.row]>> \o t.alignedQuery,
              alignedRef   |-> <<Gap>> \o t.alignedRef]
        ELSE IF b = "up"
        THEN [row |-> t.row - 1, col |-> t.col,
              alignedQuery |-> <<q[t.row]>> \o t.alignedQuery,
              alignedRef   |-> <<Gap>> \o t.alignedRef]
        ELSE [row |-> t.row, col |-> t.col - 1,
              alignedQuery |-> <<Gap>> \o t.alignedQuery,
              alignedRef   |-> <<r[t.col]>> \o t.alignedRef]

\* the body of the traceback loop for a branch other than break
tracebackMove(mx, q, r, t) ==
    LET b == tracebackBranch(mx, q, r, t)
    IN  IF b = "diag"
        THEN [row |-> t.row - 1, col |-> t.col - 1,
              alignedQuery |-> <<q[t.row]>> \o t.alignedQuery,
              alignedRef   |-> <<r[t.col]>> \o t.alignedRef]
        ELSE IF b = "up"
        THEN [row |-> t.row - 1, col |-> t.col,
              alignedQuery |-> <<q[t.row]>> \o t.alignedQuery,
              alignedRef   |-> <<Gap>> \o t.alignedRef]
        ELSE [row |-> t.row, col |-> t.col - 1,
              alignedQuery |-> <<Gap>> \o t.alignedQuery,
              alignedRef   |-> <<r[t.col]>> \o t.alignedRef]

\* the traceback loop runs another iteration that does not break
tracebackContinues(mx, q, r, t) ==
    tracebackCond(mx, t) /\ tracebackBranch(mx, q, r, t) # "break"

RECURSIVE tracebackLoop(_, _, _, _)
tracebackLoop(mx, q, r, t) ==
    IF tracebackContinues(mx, q, r, t)
    THEN tracebackLoop(mx, q, r, tracebackMove(mx, q, r, t))
    ELSE t

\* tracebackInit that enters the matrix one row above the given cell
tracebackInit_RowAbove(row, col) ==
    [row |-> IF row > 0 THEN row - 1 ELSE row, col |-> col,
     alignedQuery |-> <<>>, alignedRef |-> <<>>]

\* var alignedQuery, alignedRef string
tracebackInit(row, col) ==
    [row |-> row, col |-> col, alignedQuery |-> <<>>, alignedRef |-> <<>>]

\* traceback(matrix, query, reference, row, col)
traceback(mx, q, r, row, col) == tracebackLoop(mx, q, r, tracebackInit(row, col))

\* SmithWaterman(query, reference) as a function of its inputs
SmithWaterman(q, r) ==
    LET st == FillFrom(FillInit(q, r), q, r, 1)
        t  == traceback(st.matrix, q, r, st.maxRow, st.maxCol)
    IN  [ScoreMatrix  |-> st.matrix,
         MaxScore     |-> st.maxScore,
         AlignedQuery |-> t.alignedQuery,
         AlignedRef   |-> t.alignedRef]

\* ------------------------------------------------------------------------
\* Pure functions of parallel_smith_waterman.go
\* ------------------------------------------------------------------------

\* NormalizeWorkers with the default for negative values only
NormalizeWorkers_ZeroKept(n) == IF n < 0 THEN GoMaxProcs ELSE n

\* if numWorkers <= 0 { numWorkers = runtime.GOMAXPROCS(0) }
NormalizeWorkers(n) == IF n <= 0 THEN GoMaxProcs ELSE n

\* UseSequential with && in place of ||
UseSequential_And(m, n) == m < Threshold /\ n < Threshold

\* if m < 50 || n < 50: the sequential algorithm is used
UseSequential(m, n) == m < Threshold \/ n < Threshold

\* the result of the small-input branch: the sequential result with MaxRow
\* and MaxCol set to 0
FallbackResult(q, r) ==
    LET res == SmithWaterman(q, r)
    IN  [ScoreMatrix  |-> res.ScoreMatrix,
         MaxScore     |-> res.MaxScore,
         MaxRow       |-> 0,
         MaxCol       |-> 0,
         AlignedQuery |-> res.AlignedQuery,
         AlignedRef   |-> res.AlignedRef]

\* Loop condition of parallelTraceback.
parallelTracebackCond(mx, t) == t.row > 0 /\ t.col > 0 /\ mx[t.row][t.col] > 0

\* which branch of the if/else-if chain of parallelTraceback is taken
parallelTracebackBranch(mx, q, r, t) ==
    LET currentScore == mx[t.row][t.col]
        match        == matchOf(q, r, t.row, t.col)
    IN  IF currentScore = mx[t.row - 1][t.col - 1] + match THEN "diag"
        ELSE IF currentScore = mx[t.row - 1][t.col] + GapPenalty THEN "up"
        ELSE IF currentScore = mx[t.row][t.col - 1] + GapPenalty THEN "left"
        ELSE "break"

\* the body of the parallelTraceback loop for a branch other than break
parallelTracebackMove(mx, q, r, t) ==
    LET b == parallelTracebackBranch(mx, q, r, t)
    IN  IF b = "diag"
        THEN [row |-> t.row - 1, col |-> t.col - 1,
              alignedQuery |-> <<q[t.row]>> \o t.alignedQuery,
              alignedRef   |-> <<r[t.col]>> \o t.alignedRef]
        ELSE IF b = "up"
        THEN [row |-> t.row - 1, col |-> t.col,
              alignedQuery |-> <<q[t.row]>> \o t.alignedQuery,
              alignedRef   |-> <<Gap>> \o t.alignedRef]
        ELSE [row |-> t.row, col |-> t.col - 1,
              alignedQuery |-> <<Gap>> \o t.alignedQuery,
              alignedRef   |-> <<r[t.col]>> \o t.alignedRef]

\* the parallelTraceback loop runs another iteration that does not break
parallelTracebackContinues(mx, q, r, t) ==
    parallelTracebackCond(mx, t) /\ parallelTracebackBranch(mx, q, r, t) # "break"

\* the zero value of AlignmentResult
ZeroResult ==
    [ScoreMatrix |-> <<>>, MaxScore |-> 0,
     AlignedQuery |-> <<>>, AlignedRef |-> <<>>]

\* the zero value of ParallelAlignmentResult
ZeroParallelResult ==
    [ScoreMatrix |-> <<>>, MaxScore |-> 0, MaxRow |-> 0, MaxCol |-> 0,
     AlignedQuery |-> <<>>, AlignedRef |-> <<>>]

\* ------------------------------------------------------------------------
\* State
\* ------------------------------------------------------------------------
VARIABLES
    call,          \* the entry point that was called
    pc,            \* position of the calling goroutine
    query,         \* argument query
    reference,     \* argument reference
    numWorkers,    \* argument numWorkers, reassigned by the normalisation
    fill,          \* matrix, maxScore, maxRow, maxCol of the running call
    i,             \* outer fill loop variable of SmithWaterman
    j,             \* inner fill loop variable of SmithWaterman
    tb,            \* row, col, alignedQuery, alignedRef of the running traceback
    result,        \* the value returned (a zero value until the call returns)
    wave,          \* loop variable of the diagonal sweep
    wg,            \* counter of the sync.WaitGroup
    mu,            \* 0 when the sync.Mutex is unlocked, else the wave holding it
    g,             \* per wave goroutine: [pc, i], i its loop variable
    references,    \* argument references of the batch call
    results,       \* the results slice of the batch call
    semaphore,     \* number of tokens in the semaphore channel
    closed,        \* close(semaphore) has run
    u,             \* per reference: position of the goroutine started for it
    writes         \* history: the bag of the assignments to matrix cells made
                   \* by the wave goroutines, each a triple <<wave, i, j>>

vars == <<call, pc, query, reference, numWorkers, fill, i, j, tb,
          result, wave, wg, mu, g, references, results, semaphore, closed, u,
          writes>>

\* variables of ConcurrentSmithWatermanBatch only
batchVars == <<references, results, semaphore, closed, u>>

\* variables of the concurrent engines, untouched by SmithWaterman
parVars == <<numWorkers, wave, wg, mu, g, batchVars>>

\* variables of the sequential fill loops, untouched by ParallelSmithWaterman
swVars == <<i, j, batchVars>>

\* the batch variables of a call that is not a batch call
NoBatch ==
    /\ references = <<>>
    /\ results = <<>>
    /\ semaphore = 0
    /\ closed = FALSE
    /\ u = <<>>

\* ------------------------------------------------------------------------
\* SmithWaterman, one loop iteration per step
\* ------------------------------------------------------------------------
InitSW ==
    /\ call = "SmithWaterman"
    /\ writes = EmptyBag
    /\ pc = "fill"
    /\ \E in \in SWInputs : query = in[1] /\ reference = in[2]
    /\ numWorkers = 0
    /\ fill = FillInit(query, reference)
    /\ i = 1
    /\ j = 1
    /\ tb = tracebackInit(0, 0)
    /\ result = ZeroResult
    /\ wave = 0
    /\ wg = 0
    /\ mu = 0
    /\ g = <<>>
    /\ NoBatch

\* one iteration of the inner loop (smith_waterman.go:40-60)
SWFillCell ==
    /\ call = "SmithWaterman"
    /\ pc = "fill"
    /\ i <= Len(query)
    /\ j <= Len(reference)
    /\ fill' = FillCell(fill, query, reference, i, j)
    /\ j' = j + 1
    /\ UNCHANGED <<call, writes, pc, query, reference, i, tb, result, parVars>>

\* the inner loop ends: i++ and j := 1
SWNextRow ==
    /\ call = "SmithWaterman"
    /\ pc = "fill"
    /\ i <= Len(query)
    /\ j > Len(reference)
    /\ i' = i + 1
    /\ j' = 1
    /\ UNCHANGED <<call, writes, pc, query, reference, fill, tb, result, parVars>>

\* the outer loop ends: traceback is entered at (maxRow, maxCol)
SWFillDone ==
    /\ call = "SmithWaterman"
    /\ pc = "fill"
    /\ i > Len(query)
    /\ pc' = "traceback"
    /\ tb' = tracebackInit(fill.maxRow, fill.maxCol)
    /\ UNCHANGED <<call, writes, query, reference, fill, i, j, result, parVars>>

\* one iteration of the traceback loop
SWTracebackStep ==
    /\ call = "SmithWaterman"
    /\ pc = "traceback"
    /\ tracebackContinues(fill.matrix, query, reference, tb)
    /\ tb' = tracebackMove(fill.matrix, query, reference, tb)
    /\ UNCHANGED <<call, writes, pc, query, reference, fill, i, j, result, parVars>>

\* the traceback loop ends and SmithWaterman returns
SWReturn ==
    /\ call = "SmithWaterman"
    /\ pc = "traceback"
    /\ ~tracebackContinues(fill.matrix, query, reference, tb)
    /\ pc' = "done"
    /\ result' = [ScoreMatrix  |-> fill.matrix,
                  MaxScore     |-> fill.maxScore,
                  AlignedQuery |-> tb.alignedQuery,
                  AlignedRef   |-> tb.alignedRef]
    /\ UNCHANGED <<call, writes, query, reference, fill, i, j, tb, parVars>>

NextSW ==
    \/ SWFillCell
    \/ SWNextRow
    \/ SWFillDone
    \/ SWTracebackStep
    \/ SWReturn

SpecSW == InitSW /\ [][NextSW]_vars

\* ------------------------------------------------------------------------
\* ParallelSmithWaterman
\*
\* The calling goroutine: "entry" -> "sweep" (the loop that starts one
\* goroutine per wave) -> "traceback" -> "done".  The goroutine of a wave:
\* "loop" (top of its for loop) -> "lock" (cell written, about to call
\* mu.Lock) -> "crit" (holding mu) -> "loop" ... -> "done".
\*
\* The goroutines read matrix cells that other goroutines write, with no
\* synchronisation between the write and the read.  A read therefore sees
\* the cell as the interleaving left it: its initial 0 when the writer has
\* not run yet, the written value afterwards.
\* ------------------------------------------------------------------------
Waves == 2..(Len(query) + Len(reference))

InitPar ==
    /\ call = "ParallelSmithWaterman"
    /\ writes = EmptyBag
    /\ pc = "entry"
    /\ query \in SeqsUpTo(ParAlphabet, MaxParQueryLen)
    /\ reference \in SeqsUpTo(ParAlphabet, MaxParRefLen)
    /\ numWorkers \in ParWorkerArgs
    /\ fill = FillInit(query, reference)
    /\ i = 0
    /\ j = 0
    /\ tb = tracebackInit(0, 0)
    /\ result = ZeroParallelResult
    /\ wave = 0
    /\ wg = 0
    /\ mu = 0
    /\ g = [w \in Waves |-> [pc |-> "unborn", i |-> 0]]
    /\ NoBatch

\* lines 31-47: normalise numWorkers; a short input is aligned sequentially
\* and the call returns
ParFallback ==
    /\ call = "ParallelSmithWaterman"
    /\ pc = "entry"
    /\ UseSequential(Len(query), Len(reference))
    /\ numWorkers' = NormalizeWorkers(numWorkers)
    /\ result' = FallbackResult(query, reference)
    /\ pc' = "done"
    /\ UNCHANGED <<call, writes, query, reference, fill, tb, wave, wg, mu,
                   g, swVars>>

\* lines 31-68: normalise numWorkers; the input is long enough, the matrix
\* and the maximum are initialised and the sweep starts at wave 2
ParStart ==
    /\ call = "ParallelSmithWaterman"
    /\ pc = "entry"
    /\ ~UseSequential(Len(query), Len(reference))
    /\ numWorkers' = NormalizeWorkers(numWorkers)
    /\ fill' = FillInit(query, reference)
    /\ wave' = 2
    /\ pc' = "sweep"
    /\ UNCHANGED <<call, writes, query, reference, tb, result, wg, mu, g,
                   swVars>>

\* loop condition of the goroutine of wave w at i = k: i <= m && i < waveFront
WaveLoopCond(w, k) == k <= Len(query) /\ k < w

\* j < 1 || j > n for j := waveFront - i, at i = k
WaveSkips(w, k) == w - k < 1 \/ w - k > Len(reference)

RECURSIVE SkipInvalid(_, _)
\* lines 74-78: the iterations from i = k on that only `continue` (they touch
\* nothing shared) are run through; the result is the first i whose
\* coordinates are valid, or the i at which the loop ends
SkipInvalid(w, k) ==
    IF WaveLoopCond(w, k) /\ WaveSkips(w, k) THEN SkipInvalid(w, k + 1) ELSE k

\* lines 68-74: wg.Add(1); go func(waveFront int) {...}(wave); wave++.  The
\* new goroutine stands at its first iteration with valid coordinates.
ParSpawn ==
    /\ call = "ParallelSmithWaterman"
    /\ pc = "sweep"
    /\ wave <= Len(query) + Len(reference)
    /\ wg' = wg + 1
    /\ g' = [g EXCEPT ![wave] = [pc |-> "loop", i |-> SkipInvalid(wave, 1)]]
    /\ wave' = wave + 1
    /\ UNCHANGED <<call, writes, pc, query, reference, numWorkers, fill,
                   tb, result, mu, swVars>>

\* WaveCellScore without the 0 among the arguments of smithMax
WaveCellScore_NoFloor(w) ==
    LET ii == g[w].i
        jj == w - g[w].i
    IN  cellScore_NoClip(fill.matrix[ii-1][jj-1], fill.matrix[ii-1][jj],
                         fill.matrix[ii][jj-1],
                         matchOf(query, reference, ii, jj))

\* WaveCellScore whose gap terms carry no penalty
WaveCellScore_FreeGap(w) ==
    LET ii == g[w].i
        jj == w - g[w].i
    IN  cellScore(fill.matrix[ii-1][jj-1], fill.matrix[ii-1][jj] - GapPenalty,
                  fill.matrix[ii][jj-1] - GapPenalty,
                  matchOf(query, reference, ii, jj))

\* the value the goroutine of wave w computes for its cell (i, waveFront - i)
\* from the matrix as it is now (lines 80-92)
WaveCellScore(w) ==
    LET ii == g[w].i
        jj == w - g[w].i
    IN  cellScore(fill.matrix[ii-1][jj-1], fill.matrix[ii-1][jj],
                  fill.matrix[ii][jj-1], matchOf(query, reference, ii, jj))

\* WaveCell that stays on a cell it has written 0 to
WaveCell_RepeatsZeroCell(w) ==
    /\ g[w].pc = "loop"
    /\ WaveLoopCond(w, g[w].i)
    /\ LET v == WaveCellScore(w)
       IN  /\ fill' = [fill EXCEPT !.matrix[g[w].i][w - g[w].i] = v]
           /\ g' = IF v > 0 THEN [g EXCEPT ![w].pc = "lock"] ELSE g
    /\ writes' = writes (+) SetToBag({<<w, g[w].i, w - g[w].i>>})
    /\ UNCHANGED <<call, pc, query, reference, numWorkers, tb,
                   result, wave, wg, mu, swVars>>

\* lines 80-95: compute and write matrix[i][j]; a positive cell goes on to
\* mu.Lock, any other to the next iteration
WaveCell(w) ==
    /\ g[w].pc = "loop"
    /\ WaveLoopCond(w, g[w].i)
    /\ LET v == WaveCellScore(w)
       IN  /\ fill' = [fill EXCEPT !.matrix[g[w].i][w - g[w].i] = v]
           /\ g' = IF v > 0 THEN [g EXCEPT ![w].pc = "lock"]
                            ELSE [g EXCEPT ![w].i = SkipInvalid(w, @ + 1)]
    /\ writes' = writes (+) SetToBag({<<w, g[w].i, w - g[w].i>>})
    /\ UNCHANGED <<call, pc, query, reference, numWorkers, tb,
                   result, wave, wg, mu, swVars>>

\* WaveLock that does not wait for the mutex
WaveLock_NoWait(w) ==
    /\ g[w].pc = "lock"
    /\ mu' = w
    /\ g' = [g EXCEPT ![w].pc = "crit"]
    /\ UNCHANGED <<call, writes, pc, query, reference, numWorkers, fill,
                   tb, result, wave, wg, swVars>>

\* line 96: mu.Lock() returns once the mutex is free
WaveLock(w) ==
    /\ g[w].pc = "lock"
    /\ mu = 0
    /\ mu' = w
    /\ g' = [g EXCEPT ![w].pc = "crit"]
    /\ UNCHANGED <<call, writes, pc, query, reference, numWorkers, fill,
                   tb, result, wave, wg, swVars>>

\* UpdateMax without the comparison: the last cell entered stays
UpdateMax_Unconditional(st, ii, jj) ==
    [st EXCEPT !.maxScore = st.matrix[ii][jj], !.maxRow = ii, !.maxCol = jj]

\* the maximum record after lines 97-100 ran for cell (ii, jj)
UpdateMax(st, ii, jj) ==
    IF st.matrix[ii][jj] > st.maxScore
    THEN [st EXCEPT !.maxScore = st.matrix[ii][jj], !.maxRow = ii, !.maxCol = jj]
    ELSE st

\* WaveUpdateUnlock without the mu.Unlock()
WaveUpdateUnlock_KeepsLock(w) ==
    /\ g[w].pc = "crit"
    /\ fill' = UpdateMax(fill, g[w].i, w - g[w].i)
    /\ g' = [g EXCEPT ![w] = [pc |-> "loop", i |-> SkipInvalid(w, @.i + 1)]]
    /\ UNCHANGED <<call, writes, pc, query, reference, numWorkers, tb,
                   result, wave, wg, mu, swVars>>

\* lines 97-101: compare and replace the maximum, mu.Unlock(), next iteration
WaveUpdateUnlock(w) ==
    /\ g[w].pc = "crit"
    /\ fill' = UpdateMax(fill, g[w].i, w - g[w].i)
    /\ mu' = 0
    /\ g' = [g EXCEPT ![w] = [pc |-> "loop", i |-> SkipInvalid(w, @.i + 1)]]
    /\ UNCHANGED <<call, writes, pc, query, reference, numWorkers, tb,
                   result, wave, wg, swVars>>

\* the goroutine's loop ends and the deferred wg.Done() runs
WaveDone(w) ==
    /\ g[w].pc = "loop"
    /\ ~WaveLoopCond(w, g[w].i)
    /\ wg' = wg - 1
    /\ g' = [g EXCEPT ![w].pc = "done"]
    /\ UNCHANGED <<call, writes, pc, query, reference, numWorkers, fill,
                   tb, result, wave, mu, swVars>>

\* ParWait that does not wait for the counter to reach 0
ParWait_NoWait ==
    /\ call = "ParallelSmithWaterman"
    /\ pc = "sweep"
    /\ wave > Len(query) + Len(reference)
    /\ pc' = "traceback"
    /\ tb' = tracebackInit(fill.maxRow, fill.maxCol)
    /\ UNCHANGED <<call, writes, query, reference, numWorkers, fill,
                   result, wave, wg, mu, g, swVars>>

\* lines 108-111: the sweep loop has ended, wg.Wait() returns when the counter
\* is 0, and parallelTraceback is entered at (maxRow, maxCol)
ParWait ==
    /\ call = "ParallelSmithWaterman"
    /\ pc = "sweep"
    /\ wave > Len(query) + Len(reference)
    /\ wg = 0
    /\ pc' = "traceback"
    /\ tb' = tracebackInit(fill.maxRow, fill.maxCol)
    /\ UNCHANGED <<call, writes, query, reference, numWorkers, fill,
                   result, wave, wg, mu, g, swVars>>

\* one iteration of the parallelTraceback loop
ParTracebackStep ==
    /\ call = "ParallelSmithWaterman"
    /\ pc = "traceback"
    /\ parallelTracebackContinues(fill.matrix, query, reference, tb)
    /\ tb' = parallelTracebackMove(fill.matrix, query, reference, tb)
    /\ UNCHANGED <<call, writes, pc, query, reference, numWorkers, fill,
                   result, wave, wg, mu, g, swVars>>

\* the parallelTraceback loop ends and ParallelSmithWaterman returns
ParReturn ==
    /\ call = "ParallelSmithWaterman"
    /\ pc = "traceback"
    /\ ~parallelTracebackContinues(fill.matrix, query, reference, tb)
    /\ pc' = "done"
    /\ result' = [ScoreMatrix  |-> fill.matrix,
                  MaxScore     |-> fill.maxScore,
                  MaxRow       |-> fill.maxRow,
                  MaxCol       |-> fill.maxCol,
                  AlignedQuery |-> tb.alignedQuery,
                  AlignedRef   |-> tb.alignedRef]
    /\ UNCHANGED <<call, writes, query, reference, numWorkers, fill, tb,
                   wave, wg, mu, g, swVars>>

NextPar ==
    \/ ParFallback
    \/ ParStart
    \/ ParSpawn
    \/ \E w \in DOMAIN g : WaveCell(w)
    \/ \E w \in DOMAIN g : WaveLock(w)
    \/ \E w \in DOMAIN g : WaveUpdateUnlock(w)
    \/ \E w \in DOMAIN g : WaveDone(w)
    \/ ParWait
    \/ ParTracebackStep
    \/ ParReturn

SpecPar == InitPar /\ [][NextPar]_vars

\* the first step of the calling goroutine of ParallelSmithWaterman
\* (ParFallback or ParStart) as it shows in pc
ParEntryStep ==
    /\ call = "ParallelSmithWaterman"
    /\ pc = "entry"
    /\ pc' = IF UseSequential(Len(query), Len(reference))
             THEN "done" ELSE "sweep"

\* the later steps of the calling goroutine of ParallelSmithWaterman
ParMainStep ==
    \/ ParSpawn
    \/ ParWait
    \/ ParTracebackStep
    \/ ParReturn

\* the steps of the goroutine of wave w (WaveCell, WaveLock, WaveUpdateUnlock,
\* WaveDone) as they show in g: every one of them changes g[w]
WaveStep(w) ==
    /\ w \in DOMAIN g
    /\ \/ g[w].pc = "loop"
       \/ g[w].pc = "lock" /\ mu = 0
       \/ g[w].pc = "crit"
    /\ g' = [g EXCEPT ![w] =
                CASE g[w].pc = "loop" /\ WaveLoopCond(w, g[w].i) ->
                         IF WaveCellScore(w) > 0
                         THEN [@ EXCEPT !.pc = "lock"]
                         ELSE [@ EXCEPT !.i = SkipInvalid(w, @ + 1)]
                  [] g[w].pc = "loop" /\ ~WaveLoopCond(w, g[w].i) ->
                         [@ EXCEPT !.pc = "done"]
                  [] g[w].pc = "lock" -> [@ EXCEPT !.pc = "crit"]
                  [] g[w].pc = "crit" ->
                         [pc |-> "loop", i |-> SkipInvalid(w, @.i + 1)]]

\* the calls of ParallelSmithWaterman followed to their end: the query is a
\* run of one symbol, the reference is any sequence over ParAlphabet, so a
\* wave meets matches only, mismatches only, or both
InitParFair ==
    /\ InitPar
    /\ \A k \in 1..Len(query) : query[k] = "A"

\* ParallelSmithWaterman under the Go scheduler: the calling goroutine takes
\* a step it can take (it is runnable, or the Wait it is parked in can
\* return) eventually, and while some fill goroutine can take a step (it is
\* runnable, or the Lock it is parked in can return) some fill goroutine
\* takes one eventually
FairSpecPar ==
    /\ InitParFair
    /\ [][NextPar]_vars
    /\ WF_pc(ParEntryStep)
    /\ WF_vars(ParMainStep)
    /\ WF_g(\E w \in DOMAIN g : WaveStep(w))

\* ------------------------------------------------------------------------
\* ConcurrentSmithWatermanBatch
\*
\* The calling goroutine: "entry" -> "dispatch" (the range loop) -> "done".
\* The goroutine started for references[k]: "run" (about to align) ->
\* "release" (deferred receive from semaphore) -> "finish" (deferred
\* wg.Done) -> "done".  The Go index k-1 is k here.
\* ------------------------------------------------------------------------

\* lines 186-193: the default for numWorkers <= 0, then the clamp to
\* len(references)
BatchWorkers(n, refs) ==
    LET normalized == IF n <= 0 THEN GoMaxProcs ELSE n
    IN  IF normalized > Len(refs) THEN Len(refs) ELSE normalized

InitBatch ==
    /\ call = "ConcurrentSmithWatermanBatch"
    /\ writes = EmptyBag
    /\ pc = "entry"
    /\ query \in SeqsUpTo(BatchAlphabet, MaxBatchLen)
    /\ reference = <<>>
    /\ references \in SeqsUpTo(SeqsUpTo(BatchAlphabet, MaxBatchLen), MaxRefs)
    /\ numWorkers \in (0 - 1)..MaxBatchWorkers
    /\ fill = FillInit(<<>>, <<>>)
    /\ i = 0
    /\ j = 0
    /\ tb = tracebackInit(0, 0)
    /\ result = ZeroResult
    /\ wave = 0
    /\ wg = 0
    /\ mu = 0
    /\ g = <<>>
    /\ results = <<>>
    /\ semaphore = 0
    /\ closed = FALSE
    /\ u = [k \in 1..Len(references) |-> "unborn"]

\* lines 185-198: numWorkers is normalised and clamped, results is made with
\* one zero value per reference, semaphore with capacity numWorkers
BatchStart ==
    /\ call = "ConcurrentSmithWatermanBatch"
    /\ pc = "entry"
    /\ numWorkers' = BatchWorkers(numWorkers, references)
    /\ results' = [k \in 1..Len(references) |-> ZeroResult]
    /\ i' = 1
    /\ pc' = "dispatch"
    /\ UNCHANGED <<call, writes, query, reference, fill, j, tb, result, wave, wg, mu,
                   g, references, semaphore, closed, u>>

\* SemaphoreFull for a channel with one slot too many
SemaphoreFull_OffByOne == semaphore >= numWorkers + 1

\* lines 197, 203: the send on semaphore waits while the channel, made with
\* capacity numWorkers, is full
SemaphoreFull == semaphore >= numWorkers

\* BatchDispatch without the send on semaphore
BatchDispatch_NoSend ==
    /\ call = "ConcurrentSmithWatermanBatch"
    /\ pc = "dispatch"
    /\ i <= Len(references)
    /\ wg' = wg + 1
    /\ u' = [u EXCEPT ![i] = "run"]
    /\ i' = i + 1
    /\ UNCHANGED <<call, writes, pc, query, reference, numWorkers, fill, j, tb,
                   result, wave, mu, g, references, results, semaphore,
                   closed>>

\* lines 201-211: one iteration of the range loop: wg.Add(1), the send on
\* semaphore (which waits while the channel holds numWorkers tokens), and
\* the go statement
BatchDispatch ==
    /\ call = "ConcurrentSmithWatermanBatch"
    /\ pc = "dispatch"
    /\ i <= Len(references)
    /\ ~SemaphoreFull
    /\ wg' = wg + 1
    /\ semaphore' = semaphore + 1
    /\ u' = [u EXCEPT ![i] = "run"]
    /\ i' = i + 1
    /\ UNCHANGED <<call, writes, pc, query, reference, numWorkers, fill, j, tb,
                   result, wave, mu, g, references, results, closed>>

\* UnitSlot in completion order: the next free slot
UnitSlot_CompletionOrder(k) ==
    Cardinality({x \in DOMAIN u : u[x] \in {"release", "finish", "done"}}) + 1

\* UnitSlot that is the first slot for every goroutine
UnitSlot_First(k) == 1

\* the slot the goroutine started with index k writes
UnitSlot(k) == k

\* line 210: results[index] = SmithWaterman(query, reference)
UnitAlign(k) ==
    /\ u[k] = "run"
    /\ results' = [results EXCEPT ![UnitSlot(k)] = SmithWaterman(query, references[k])]
    /\ u' = [u EXCEPT ![k] = "release"]
    /\ UNCHANGED <<call, writes, pc, query, reference, numWorkers, fill, i, j, tb,
                   result, wave, wg, mu, g, references, semaphore, closed>>

\* UnitRelease without the receive: the token stays in the channel
UnitRelease_KeepsToken(k) ==
    /\ u[k] = "release"
    /\ u' = [u EXCEPT ![k] = "finish"]
    /\ UNCHANGED <<call, writes, pc, query, reference, numWorkers, fill, i, j, tb,
                   result, wave, wg, mu, g, references, results, semaphore,
                   closed>>

\* line 207: the deferred <-semaphore takes one token out of the channel
UnitRelease(k) ==
    /\ u[k] = "release"
    /\ semaphore > 0
    /\ semaphore' = semaphore - 1
    /\ u' = [u EXCEPT ![k] = "finish"]
    /\ UNCHANGED <<call, writes, pc, query, reference, numWorkers, fill, i, j, tb,
                   result, wave, wg, mu, g, references, results, closed>>

\* line 206: the deferred wg.Done()
UnitDone(k) ==
    /\ u[k] = "finish"
    /\ wg' = wg - 1
    /\ u' = [u EXCEPT ![k] = "done"]
    /\ UNCHANGED <<call, writes, pc, query, reference, numWorkers, fill, i, j, tb,
                   result, wave, mu, g, references, results, semaphore,
                   closed>>

\* lines 215-218: the loop has ended, wg.Wait() returns when the counter is
\* 0, the channel is closed and results is returned
BatchReturn ==
    /\ call = "ConcurrentSmithWatermanBatch"
    /\ pc = "dispatch"
    /\ i > Len(references)
    /\ wg = 0
    /\ closed' = TRUE
    /\ pc' = "done"
    /\ UNCHANGED <<call, writes, query, reference, numWorkers, fill, i, j, tb, result,
                   wave, wg, mu, g, references, results, semaphore, u>>

NextBatch ==
    \/ BatchStart
    \/ BatchDispatch
    \/ \E k \in DOMAIN u : UnitAlign(k)
    \/ \E k \in DOMAIN u : UnitRelease(k)
    \/ \E k \in DOMAIN u : UnitDone(k)
    \/ BatchReturn

SpecBatch == InitBatch /\ [][NextBatch]_vars

\* the steps of the goroutine started for references[k] (UnitAlign,
\* UnitRelease, UnitDone) as they show in u, the only variable all three
\* change
UnitStep(k) ==
    /\ k \in DOMAIN u
    /\ \/ u[k] = "run" /\ u' = [u EXCEPT ![k] = "release"]
       \/ u[k] = "release" /\ semaphore > 0 /\ u' = [u EXCEPT ![k] = "finish"]
       \/ u[k] = "finish" /\ u' = [u EXCEPT ![k] = "done"]

\* ConcurrentSmithWatermanBatch under the Go scheduler: a goroutine that can
\* take a step (it is runnable, or the channel operation or the Wait it is
\* parked on can proceed) takes one eventually
FairSpecBatch ==
    /\ SpecBatch
    /\ WF_vars(BatchStart)
    /\ WF_vars(BatchDispatch)
    /\ WF_vars(BatchReturn)
    /\ \A k \in 1..MaxRefs : WF_u(UnitStep(k))

\* ------------------------------------------------------------------------
\* Any of the three entry points
\* ------------------------------------------------------------------------
Init == InitSW \/ InitPar \/ InitBatch

Next == NextSW \/ NextPar \/ NextBatch

Spec == Init /\ [][Next]_vars

\* ------------------------------------------------------------------------
\* Properties
\* ------------------------------------------------------------------------

\* SmithWaterman has returned
SWDone == call = "SmithWaterman" /\ pc = "done"

\* the running call is ParallelSmithWaterman
ParCall == call = "ParallelSmithWaterman"

\* ParallelSmithWaterman has returned
ParDone == ParCall /\ pc = "done"

\* the running call is ConcurrentSmithWatermanBatch
BatchCall == call = "ConcurrentSmithWatermanBatch"

\* ConcurrentSmithWatermanBatch has returned
BatchDone == BatchCall /\ pc = "done"

\* the cells (i, j) of a matrix of the running call
Cells == (0..Len(query)) \X (0..Len(reference))

\* the cells the fill loops write
InnerCells == (1..Len(query)) \X (1..Len(reference))

\* the cells of anti-diagonal w
WaveCells(w) == {c \in InnerCells : c[1] + c[2] = w}

\* the cells of anti-diagonal w its goroutine has written so far
WaveWritten(w) ==
    IF g[w].pc = "unborn" THEN {}
    ELSE {c \in WaveCells(w) :
            \/ c[1] < g[w].i
            \/ c[1] = g[w].i /\ g[w].pc \in {"lock", "crit"}}

\* the batch goroutines whose alignment has been stored
Aligned == {k \in DOMAIN u : u[k] \in {"release", "finish", "done"}}

\* the batch goroutines that were started and have not given their permit back
InFlight == {k \in DOMAIN u : u[k] \in {"run", "release"}}

\* a sequence without its gap markers
StripGaps(s) == SelectSeq(s, LAMBDA c : c # Gap)

\* x occurs in s as a contiguous block
IsSubstring(x, s) ==
    \E a \in 0..(Len(s) - Len(x)) : \A k \in 1..Len(x) : s[a + k] = x[k]

\* C1: when ParallelSmithWaterman returns, its MaxScore is the MaxScore of
\* SmithWaterman on the same inputs, in every interleaving.
C1_EngineEquivalence ==
    ParDone => result.MaxScore = SmithWaterman(query, reference).MaxScore

\* C2: no cell of anti-diagonal d+1 is computed before every cell of
\* anti-diagonal d has been written.
C2_InterDiagonalBarrier ==
    ParCall =>
        \A w \in DOMAIN g :
            (w + 1 \in DOMAIN g /\ WaveWritten(w + 1) # {})
                => WaveWritten(w) = WaveCells(w)

\* C3: results has one slot per reference, the slot of every goroutine that
\* has stored its alignment holds SmithWaterman(query, references[k]) whatever
\* the other goroutines have done, and at return every goroutine has finished.
C3_BatchOrdering ==
    (BatchCall /\ pc # "entry") =>
        /\ Len(results) = Len(references)
        /\ \A k \in Aligned : results[k] = SmithWaterman(query, references[k])
        /\ pc = "done" => \A k \in DOMAIN u : u[k] = "done"

\* the goroutine of the second reference has finished, with its alignment in
\* its slot, before the goroutine of the first reference has aligned
C3_Witness ==
    /\ BatchCall
    /\ Len(references) >= 2
    /\ u[1] = "run"
    /\ u[2] = "done"
    /\ results[2] = SmithWaterman(query, references[2])
    /\ results[2].MaxScore > 0
    /\ results[1] = ZeroResult

\* the effective bound for a numWorkers argument n: n, or GOMAXPROCS when
\* n <= 0, clamped down to len(references)
EffectiveBound(n) ==
    LET d == IF n <= 0 THEN GoMaxProcs ELSE n
    IN  IF Len(references) < d THEN Len(references) ELSE d

\* C4: the number of alignments started and not yet finished never exceeds
\* the effective bound, and the first step of the call sets numWorkers to the
\* effective bound of the argument.
C4_BatchConcurrencyBound ==
    /\ [](BatchCall => Cardinality(InFlight) <= EffectiveBound(numWorkers))
    /\ [][(BatchCall /\ pc = "entry") => numWorkers' = EffectiveBound(numWorkers)]_vars

\* the bound is reached while a reference still waits to be dispatched
C4_Witness ==
    /\ BatchCall
    /\ pc = "dispatch"
    /\ i <= Len(references)
    /\ numWorkers >= 1
    /\ Cardinality(InFlight) = numWorkers

\* C5: every cell of the score matrix SmithWaterman returns is >= 0.
C5_NonNegative ==
    SWDone => \A c \in Cells : result.ScoreMatrix[c[1]][c[2]] >= 0

\* SmithWaterman has returned a matrix in which a mismatching cell, whose
\* three candidates are all negative, was clipped to 0
C5_Witness ==
    /\ SWDone
    /\ \E c \in InnerCells :
          /\ query[c[1]] # reference[c[2]]
          /\ result.ScoreMatrix[c[1] - 1][c[2] - 1] = 0
          /\ result.ScoreMatrix[c[1]][c[2]] = 0

\* the aligned strings aq, ar are a well-formed alignment of q and r
WellFormed(aq, ar, q, r) ==
    /\ Len(aq) = Len(ar)
    /\ \A k \in 1..Len(aq) : ~(aq[k] = Gap /\ ar[k] = Gap)
    /\ IsSubstring(StripGaps(aq), q)
    /\ IsSubstring(StripGaps(ar), r)

\* C6: the aligned strings returned by SmithWaterman, by ParallelSmithWaterman
\* and in every stored slot of ConcurrentSmithWatermanBatch have equal
\* length, no column with two gap markers, and are, gap markers removed,
\* contiguous blocks of the query and of the reference.
C6_WellFormedAlignment ==
    /\ SWDone =>
         WellFormed(result.AlignedQuery, result.AlignedRef, query, reference)
    /\ ParDone =>
         WellFormed(result.AlignedQuery, result.AlignedRef, query, reference)
    /\ BatchCall =>
         \A k \in Aligned :
             WellFormed(results[k].AlignedQuery, results[k].AlignedRef,
                        query, references[k])

\* SmithWaterman has returned an alignment with a gap marker in the reference
C6_Witness ==
    /\ SWDone
    /\ \E k \in 1..Len(result.AlignedRef) : result.AlignedRef[k] = Gap
    /\ Len(StripGaps(result.AlignedRef)) >= 2

\* C7: SmithWaterman(S, S) has MaxScore len(S) * MatchScore and both aligned
\* strings equal to S.
C7_Identity ==
    (SWDone /\ query = reference) =>
        /\ result.MaxScore = Len(query) * MatchScore
        /\ result.AlignedQuery = query
        /\ result.AlignedRef = query

\* SmithWaterman has returned for a sequence of two different symbols or more
\* aligned with itself
C7_Witness ==
    /\ SWDone
    /\ query = reference
    /\ Len(query) >= 2
    /\ query[1] # query[2]

\* C8: SmithWaterman(A, B).MaxScore = SmithWaterman(B, A).MaxScore.
C8_Symmetry ==
    SWDone => result.MaxScore = SmithWaterman(reference, query).MaxScore

\* SmithWaterman has returned a positive score for sequences of different
\* lengths
C8_Witness ==
    /\ SWDone
    /\ Len(query) > Len(reference)
    /\ result.MaxScore > MatchScore

\* a result with score 0 and empty aligned strings
EmptyAlignment(res) ==
    /\ res.MaxScore = 0
    /\ res.AlignedQuery = <<>>
    /\ res.AlignedRef = <<>>

\* C9: SmithWaterman on an empty query or an empty reference returns score 0
\* and empty aligned strings; in a batch the slot of an empty reference holds
\* such a result and every other stored slot holds its own alignment.
C9_DegenerateInputs ==
    /\ (SWDone /\ (query = <<>> \/ reference = <<>>)) => EmptyAlignment(result)
    /\ BatchCall =>
         \A k \in Aligned :
             /\ references[k] = <<>> => EmptyAlignment(results[k])
             /\ references[k] # <<>> =>
                  results[k] = SmithWaterman(query, references[k])

\* a batch has returned with an empty reference in one slot and a positive
\* score in another
C9_Witness ==
    /\ BatchDone
    /\ \E k \in DOMAIN u : references[k] = <<>> /\ EmptyAlignment(results[k])
    /\ \E k \in DOMAIN u : results[k].MaxScore > 0

\* C10: with a length below the threshold ParallelSmithWaterman starts no
\* goroutine and returns the fields of SmithWaterman with MaxRow = MaxCol = 0;
\* with both lengths at or above it, the goroutines of all waves have run.
C10_SmallInputFallback ==
    ParCall =>
        LET short == Len(query) < Threshold \/ Len(reference) < Threshold
            sw    == SmithWaterman(query, reference)
        IN  /\ short => (wg = 0 /\ \A w \in DOMAIN g : g[w].pc = "unborn")
            /\ (short /\ pc = "done") =>
                 /\ result.ScoreMatrix = sw.ScoreMatrix
                 /\ result.MaxScore = sw.MaxScore
                 /\ result.AlignedQuery = sw.AlignedQuery
                 /\ result.AlignedRef = sw.AlignedRef
                 /\ result.MaxRow = 0
                 /\ result.MaxCol = 0
            /\ (~short /\ pc = "done") =>
                 /\ DOMAIN g # {}
                 /\ \A w \in DOMAIN g : g[w].pc = "done"

\* ParallelSmithWaterman has returned a positive score for a query below the
\* threshold and a reference at or above it
C10_Witness ==
    /\ ParDone
    /\ Len(query) < Threshold
    /\ Len(reference) >= Threshold
    /\ result.MaxScore > 0
    /\ result.MaxRow = 0

RECURSIVE WaveRun(_, _, _)
\* parallel_smith_waterman.go:72-103 run without interruption: the fill state
\* st after the goroutine of wave w has run its loop from i = k to the end
WaveRun(st, w, k) ==
    IF ~WaveLoopCond(w, k) THEN st
    ELSE LET jj      == w - k
             v       == cellScore(st.matrix[k-1][jj-1], st.matrix[k-1][jj],
                                  st.matrix[k][jj-1],
                                  matchOf(query, reference, k, jj))
             written == [st EXCEPT !.matrix[k][jj] = v]
             locked  == IF v > 0 THEN UpdateMax(written, k, jj) ELSE written
         IN  WaveRun(locked, w, SkipInvalid(w, k + 1))

RECURSIVE SweepInOrder(_, _)
\* the schedule in which the goroutine of every wave runs to its end before
\* the goroutine of the next wave takes its first step (lines 68-108)
SweepInOrder(st, w) ==
    IF w > Len(query) + Len(reference) THEN st
    ELSE SweepInOrder(WaveRun(st, w, SkipInvalid(w, 1)), w + 1)

RECURSIVE parallelTracebackLoop(_, _, _, _)
\* the for loop of parallelTraceback run to its end
parallelTracebackLoop(mx, q, r, t) ==
    IF parallelTracebackContinues(mx, q, r, t)
    THEN parallelTracebackLoop(mx, q, r, parallelTracebackMove(mx, q, r, t))
    ELSE t

\* what ParallelSmithWaterman returns on the wavefront path under the
\* schedule SweepInOrder
InOrderResult ==
    LET st == SweepInOrder(FillInit(query, reference), 2)
        t  == parallelTracebackLoop(st.matrix, query, reference,
                                    tracebackInit(st.maxRow, st.maxCol))
    IN  [ScoreMatrix  |-> st.matrix,
         MaxScore     |-> st.maxScore,
         MaxRow       |-> st.maxRow,
         MaxCol       |-> st.maxCol,
         AlignedQuery |-> t.alignedQuery,
         AlignedRef   |-> t.alignedRef]

\* C11: the MaxScore, MaxRow, MaxCol, AlignedQuery and AlignedRef that
\* ParallelSmithWaterman returns depend on its arguments only: every
\* interleaving of the goroutines returns what the schedule that runs the
\* waves one after the other returns.
C11_FunctionOfInputs ==
    ParDone =>
        LET expected == IF UseSequential(Len(query), Len(reference))
                        THEN FallbackResult(query, reference)
                        ELSE InOrderResult
        IN  /\ result.MaxScore = expected.MaxScore
            /\ result.MaxRow = expected.MaxRow
            /\ result.MaxCol = expected.MaxCol
            /\ result.AlignedQuery = expected.AlignedQuery
            /\ result.AlignedRef = expected.AlignedRef

\* ParallelSmithWaterman has returned, on the wavefront path, what the
\* in-order schedule returns
C11_InOrderReached ==
    /\ ParDone
    /\ ~UseSequential(Len(query), Len(reference))
    /\ result = InOrderResult
    /\ result.MaxScore > MatchScore

\* C12: every fair execution of ConcurrentSmithWatermanBatch returns; the
\* dispatcher standing at any reference gets past it; and when the call has
\* returned every goroutine has finished and every slot of results has been
\* written.
C12_BatchCompletion ==
    /\ <>BatchDone
    /\ \A n \in 1..MaxRefs :
         (BatchCall /\ pc = "dispatch" /\ i = n /\ n <= Len(references))
             ~> (i > n)
    /\ [](BatchDone =>
            /\ \A k \in DOMAIN u : u[k] = "done"
            /\ Len(results) = Len(references)
            /\ \A k \in 1..Len(references) : results[k] # ZeroResult)

\* the batch has returned after the dispatcher found the semaphore full with
\* a reference still to dispatch: two references or more, one permit
C12_Witness ==
    /\ BatchDone
    /\ Len(references) >= 2
    /\ numWorkers = 1
    /\ \A k \in DOMAIN u : results[k] # ZeroResult

\* C13: the first step of ParallelSmithWaterman and of
\* ConcurrentSmithWatermanBatch called with numWorkers <= 0 rejects nothing:
\* it goes on as the same step does for numWorkers = GOMAXPROCS, leaving in
\* numWorkers the value that argument leaves (GOMAXPROCS, in the batch clamped
\* to len(references)); nothing else of the state after that step depends on
\* the argument.
C13_WorkerNormalization ==
    [][(pc = "entry" /\ numWorkers <= 0) =>
          /\ ParCall =>
               /\ numWorkers' = GoMaxProcs
               /\ pc' = IF Len(query) < Threshold \/ Len(reference) < Threshold
                        THEN "done" ELSE "sweep"
          /\ BatchCall =>
               /\ numWorkers' = IF GoMaxProcs > Len(references)
                                THEN Len(references) ELSE GoMaxProcs
               /\ pc' = "dispatch"]_vars

\* a batch has returned after running with GOMAXPROCS permits, more than any
\* positive argument handed to it: its numWorkers argument was zero or
\* negative
C13_Witness ==
    /\ BatchDone
    /\ numWorkers = GoMaxProcs
    /\ numWorkers > MaxBatchWorkers
    /\ \A k \in DOMAIN u : results[k] = SmithWaterman(query, references[k])

\* the wave goroutines that were started and have not returned
LiveWaves == {w \in DOMAIN g : g[w].pc \in {"loop", "lock", "crit"}}

\* C14: the number of fill goroutines of ParallelSmithWaterman alive at the
\* same time never exceeds the normalised numWorkers.
C14_WorkerBound ==
    (ParCall /\ pc # "entry") => Cardinality(LiveWaves) <= numWorkers

RECURSIVE calculateAlignmentScoreFrom(_, _, _)
\* the loop of calculateAlignmentScore from column k on
calculateAlignmentScoreFrom(aq, ar, k) ==
    IF k > Len(aq) THEN 0
    ELSE (IF aq[k] = Gap \/ ar[k] = Gap THEN GapPenalty
          ELSE IF aq[k] = ar[k] THEN MatchScore
          ELSE MismatchScore)
         + calculateAlignmentScoreFrom(aq, ar, k + 1)

\* calculateAlignmentScore(query, reference)
calculateAlignmentScore(aq, ar) == calculateAlignmentScoreFrom(aq, ar, 1)

\* areAlignmentsEquivalent(query1, ref1, query2, ref2)
areAlignmentsEquivalent(query1, ref1, query2, ref2) ==
    IF query1 = query2 /\ ref1 = ref2 THEN TRUE
    ELSE IF Len(query1) # Len(query2) \/ Len(ref1) # Len(ref2) THEN FALSE
    ELSE calculateAlignmentScore(query1, ref1)
             = calculateAlignmentScore(query2, ref2)

\* C15: on the wavefront path the alignment ParallelSmithWaterman returns is
\* equivalent to the alignment of SmithWaterman for the same query and
\* reference: the same strings, or strings of the same lengths with the same
\* alignment score.
C15_AlignmentsEquivalent ==
    (ParDone /\ ~UseSequential(Len(query), Len(reference))) =>
        LET seqResult == SmithWaterman(query, reference)
        IN  areAlignmentsEquivalent(seqResult.AlignedQuery, seqResult.AlignedRef,
                                    result.AlignedQuery, result.AlignedRef)

\* the number of gap markers in s
GapCount(s) == Len(s) - Len(StripGaps(s))

\* C16: SmithWaterman scores "GATTACA" against "GATTACA" 14, against
\* "GATTTCA" 11, against "GATACA" and against "GATTCA" 10; against a
\* reference with one symbol deleted the two aligned strings hold one gap
\* marker between them, in the aligned reference.
C16_ScenarioScores ==
    (SWDone /\ query = GATTACA) =>
        /\ reference = GATTACA => result.MaxScore = 14
        /\ reference = <<"G", "A", "T", "T", "T", "C", "A">> =>
               result.MaxScore = 11
        /\ reference \in {<<"G", "A", "T", "A", "C", "A">>,
                          <<"G", "A", "T", "T", "C", "A">>} =>
               /\ result.MaxScore = 10
               /\ GapCount(result.AlignedQuery) = 0
               /\ GapCount(result.AlignedRef) = 1

\* SmithWaterman has returned for "GATTACA" against "GATACA" with a gap
\* marker in the aligned reference
C16_Witness ==
    /\ SWDone
    /\ query = GATTACA
    /\ reference = <<"G", "A", "T", "A", "C", "A">>
    /\ GapCount(result.AlignedRef) = 1
    /\ Len(result.AlignedQuery) = 7

\* the query is a contiguous block of the reference and no symbol of the
\* reference outside that block occurs in the query
FlankedBlock ==
    \E a \in 0..(Len(reference) - Len(query)) :
        /\ \A k \in 1..Len(query) : reference[a + k] = query[k]
        /\ \A p \in 1..Len(reference) :
               (p <= a \/ p > a + Len(query)) =>
                   \A k \in 1..Len(query) : query[k] # reference[p]

\* C17: for a query that is a block of the reference flanked by symbols
\* foreign to it, SmithWaterman returns MaxScore = MatchScore * len(query) and
\* an aligned reference that is, gap markers removed, the query; the blocks
\* "GAT", "ACA" and "GATTACA" shared at the start, the end and in the middle
\* of two sequences are found with 2 points per symbol.
C17_LocalAlignment ==
    SWDone =>
        /\ (query # <<>> /\ FlankedBlock) =>
               /\ result.MaxScore = MatchScore * Len(query)
               /\ StripGaps(result.AlignedRef) = query
        /\ (query = GATTACA /\ reference = <<"G", "A", "T", "X", "X", "X", "X">>) =>
               /\ result.MaxScore = 2 * 3
               /\ result.AlignedRef = <<"G", "A", "T">>
        /\ (query = GATTACA /\ reference = <<"X", "X", "X", "X", "A", "C", "A">>) =>
               /\ result.MaxScore = 2 * 3
               /\ result.AlignedRef = <<"A", "C", "A">>
        /\ (/\ query = <<"X", "X">> \o GATTACA \o <<"X", "X">>
            /\ reference = <<"Y", "Y">> \o GATTACA \o <<"Y", "Y">>) =>
               /\ result.MaxScore = 2 * 7
               /\ result.AlignedRef = GATTACA

\* SmithWaterman has returned for the pattern "GATTACA" inside
\* "XXXXXXGATTACAYYYYYY"
C17_Witness ==
    /\ SWDone
    /\ query = LocalAlignmentDemo[1]
    /\ reference = LocalAlignmentDemo[2]
    /\ FlankedBlock
    /\ result.MaxScore = 14

\* the largest of four integers
Max4(a, b, c, d) ==
    CHOOSE x \in {a, b, c, d} : \A y \in {a, b, c, d} : x >= y

\* C18: the matrix SmithWaterman returns has rows 0..len(query) and columns
\* 0..len(reference), zeros in row 0 and in column 0, and in every other cell
\* max(0, diagonal neighbour + MatchScore or MismatchScore, upper neighbour +
\* GapPenalty, left neighbour + GapPenalty).
C18_FillRecurrence ==
    SWDone =>
        LET mx == result.ScoreMatrix
        IN  /\ DOMAIN mx = 0..Len(query)
            /\ \A r \in DOMAIN mx : DOMAIN mx[r] = 0..Len(reference)
            /\ \A c \in 0..Len(reference) : mx[0][c] = 0
            /\ \A r \in 0..Len(query) : mx[r][0] = 0
            /\ \A c \in InnerCells :
                   mx[c[1]][c[2]] =
                       Max4(0,
                            mx[c[1]-1][c[2]-1]
                                + (IF query[c[1]] = reference[c[2]]
                                   THEN MatchScore ELSE MismatchScore),
                            mx[c[1]-1][c[2]] + GapPenalty,
                            mx[c[1]][c[2]-1] + GapPenalty)

\* SmithWaterman has returned a matrix with a positive cell that owes its
\* value to its upper neighbour, one to its left neighbour and one to a
\* mismatch on its diagonal
C18_Witness ==
    /\ SWDone
    /\ LET mx == result.ScoreMatrix
           dg(c) == mx[c[1]-1][c[2]-1]
                        + (IF query[c[1]] = reference[c[2]]
                           THEN MatchScore ELSE MismatchScore)
       IN  /\ \E c \in InnerCells :
                 /\ mx[c[1]][c[2]] > 0
                 /\ mx[c[1]][c[2]] = mx[c[1]-1][c[2]] + GapPenalty
                 /\ mx[c[1]][c[2]] > dg(c)
           /\ \E c \in InnerCells :
                 /\ mx[c[1]][c[2]] > 0
                 /\ mx[c[1]][c[2]] = mx[c[1]][c[2]-1] + GapPenalty
                 /\ mx[c[1]][c[2]] > dg(c)
           /\ \E c \in InnerCells :
                 /\ mx[c[1]][c[2]] > 0
                 /\ query[c[1]] # reference[c[2]]
                 /\ mx[c[1]][c[2]] = dg(c)

\* C19: on the wavefront path the ScoreMatrix ParallelSmithWaterman returns
\* is, cell for cell, the ScoreMatrix of SmithWaterman for the same inputs.
C19_ParallelMatrix ==
    (ParDone /\ ~UseSequential(Len(query), Len(reference))) =>
        \A c \in Cells :
            result.ScoreMatrix[c[1]][c[2]]
                = SmithWaterman(query, reference).ScoreMatrix[c[1]][c[2]]

\* cell c comes before cell d in row-major order, or is d
RowMajorLeq(c, d) == c[1] < d[1] \/ (c[1] = d[1] /\ c[2] <= d[2])

\* C20: once the fill of SmithWaterman is over, (maxRow, maxCol) is the first
\* cell in row-major order that holds the largest value of the matrix, and
\* the traceback is entered there; during the fill the running maximum never
\* decreases and its coordinates change only when it grows.
C20_CanonicalOrigin ==
    /\ []((call = "SmithWaterman" /\ pc \in {"traceback", "done"}) =>
            /\ fill.matrix[fill.maxRow][fill.maxCol] = fill.maxScore
            /\ \A c \in Cells :
                   /\ fill.matrix[c[1]][c[2]] <= fill.maxScore
                   /\ fill.matrix[c[1]][c[2]] = fill.maxScore =>
                          RowMajorLeq(<<fill.maxRow, fill.maxCol>>, c))
    /\ [][(call = "SmithWaterman" /\ pc = "fill" /\ pc' = "traceback") =>
              (tb'.row = fill.maxRow /\ tb'.col = fill.maxCol)]_vars
    /\ [][call = "SmithWaterman" =>
              /\ fill'.maxScore >= fill.maxScore
              /\ <<fill'.maxRow, fill'.maxCol>> # <<fill.maxRow, fill.maxCol>>
                     => fill'.maxScore > fill.maxScore]_vars

\* SmithWaterman has returned for a matrix that holds its positive maximum
\* in two cells or more
C20_Witness ==
    /\ SWDone
    /\ fill.maxScore > 0
    /\ \E c \in InnerCells :
           /\ c # <<fill.maxRow, fill.maxCol>>
           /\ fill.matrix[c[1]][c[2]] = fill.maxScore

\* the three terms a traceback compares the cell (row, col) with
DiagTerm(row, col) ==
    fill.matrix[row - 1][col - 1]
        + (IF query[row] = reference[col] THEN MatchScore ELSE MismatchScore)

UpTerm(row, col) == fill.matrix[row - 1][col] + GapPenalty

LeftTerm(row, col) == fill.matrix[row][col - 1] + GapPenalty

\* a traceback, of either engine, is running
InTraceback ==
    call \in {"SmithWaterman", "ParallelSmithWaterman"} /\ pc = "traceback"

\* C21: every step of traceback and of parallelTraceback takes the diagonal
\* move (both symbols) when the cell equals the diagonal term, else the up
\* move (query symbol, gap in the reference) when it equals the up term, else
\* the left move (gap in the query, reference symbol).
C21_TracebackPriority ==
    [][(InTraceback /\ tb' # tb) =>
          LET v == fill.matrix[tb.row][tb.col]
          IN  IF v = DiagTerm(tb.row, tb.col)
              THEN /\ tb'.row = tb.row - 1 /\ tb'.col = tb.col - 1
                   /\ tb'.alignedQuery = <<query[tb.row]>> \o tb.alignedQuery
                   /\ tb'.alignedRef = <<reference[tb.col]>> \o tb.alignedRef
              ELSE IF v = UpTerm(tb.row, tb.col)
              THEN /\ tb'.row = tb.row - 1 /\ tb'.col = tb.col
                   /\ tb'.alignedQuery = <<query[tb.row]>> \o tb.alignedQuery
                   /\ tb'.alignedRef = <<Gap>> \o tb.alignedRef
              ELSE /\ v = LeftTerm(tb.row, tb.col)
                   /\ tb'.row = tb.row /\ tb'.col = tb.col - 1
                   /\ tb'.alignedQuery = <<Gap>> \o tb.alignedQuery
                   /\ tb'.alignedRef = <<reference[tb.col]>> \o tb.alignedRef]_vars

\* traceback has just taken the diagonal move out of a cell that equals its
\* diagonal term and its up term
C21_Witness ==
    /\ call = "SmithWaterman"
    /\ pc = "traceback"
    /\ tb.alignedQuery # <<>>
    /\ tb.alignedQuery[1] # Gap
    /\ tb.alignedRef[1] # Gap
    /\ fill.matrix[tb.row + 1][tb.col + 1] = DiagTerm(tb.row + 1, tb.col + 1)
    /\ fill.matrix[tb.row + 1][tb.col + 1] = UpTerm(tb.row + 1, tb.col + 1)

\* C22: a traceback, of either engine, is entered at (maxRow, maxCol), leaves
\* only cells with a positive value, lowers row + col with every step, takes
\* at most maxRow + maxCol steps, and has stopped exactly when the cell it
\* stands on holds 0 or lies in row 0 or column 0.
C22_TracebackStops ==
    /\ [][(pc # "traceback" /\ pc' = "traceback") =>
              (tb'.row = fill.maxRow /\ tb'.col = fill.maxCol)]_vars
    /\ [][(InTraceback /\ tb' # tb) =>
              /\ fill.matrix[tb.row][tb.col] > 0
              /\ tb'.row + tb'.col < tb.row + tb.col]_vars
    /\ [](InTraceback =>
              Len(tb.alignedQuery) <= fill.maxRow + fill.maxCol)
    /\ []((call \in {"SmithWaterman", "ParallelSmithWaterman"} /\ pc = "done") =>
              (tb.row = 0 \/ tb.col = 0 \/ fill.matrix[tb.row][tb.col] = 0))

\* the first k columns of the alignment returned by SmithWaterman
PrefixScore(k) ==
    calculateAlignmentScore(SubSeq(result.AlignedQuery, 1, k),
                            SubSeq(result.AlignedRef, 1, k))

\* C23: every non-empty prefix of the columns of the alignment SmithWaterman
\* returns has a positive score.
C23_PositivePrefixes ==
    SWDone => \A k \in 1..Len(result.AlignedQuery) : PrefixScore(k) > 0

\* SmithWaterman has returned an alignment with a mismatch column and a gap
\* column, whose prefix scores go down as well as up
C23_Witness ==
    /\ SWDone
    /\ \E k \in 1..Len(result.AlignedQuery) :
           /\ result.AlignedQuery[k] # Gap
           /\ result.AlignedRef[k] # Gap
           /\ result.AlignedQuery[k] # result.AlignedRef[k]
    /\ \E k \in 1..Len(result.AlignedQuery) :
           /\ k > 1
           /\ PrefixScore(k) < PrefixScore(k - 1)

\* the cells the wave goroutines have assigned to
WrittenCells == {<<e[2], e[3]>> : e \in DOMAIN writes}

\* C24: on the wavefront path of ParallelSmithWaterman a cell (i, j) is
\* assigned to by the goroutine of wave i + j only and at most once, no cell
\* of row 0 or column 0 is assigned to, the matrix changes through these
\* assignments only, and when the call returns every cell (i, j) with
\* 1 <= i <= len(query), 1 <= j <= len(reference) has been assigned to once.
C24_CellOwnership ==
    /\ [](ParCall =>
            \A e \in DOMAIN writes :
                /\ writes[e] = 1
                /\ e[1] = e[2] + e[3]
                /\ <<e[2], e[3]>> \in InnerCells)
    /\ [][(ParCall /\ fill'.matrix # fill.matrix) =>
            \A c \in Cells :
                fill'.matrix[c[1]][c[2]] # fill.matrix[c[1]][c[2]] =>
                    writes' = writes (+) SetToBag({<<c[1] + c[2], c[1], c[2]>>})]_vars
    /\ []((ParDone /\ ~UseSequential(Len(query), Len(reference))) =>
            WrittenCells = InnerCells)

\* ParallelSmithWaterman has returned after the goroutine of one wave has
\* assigned to two cells or more
C24_Witness ==
    /\ ParDone
    /\ WrittenCells = InnerCells
    /\ \E e \in BagToSet(writes), f \in BagToSet(writes) :
           e[1] = f[1] /\ e[2] # f[2]

\* the wave goroutines between mu.Lock() and mu.Unlock()
InCritical == {w \in DOMAIN g : g[w].pc = "crit"}

\* the shared record of the running maximum
MaxRecord == <<fill.maxScore, fill.maxRow, fill.maxCol>>

\* C25: at most one goroutine of ParallelSmithWaterman is between Lock and
\* Unlock, and it is the one holding mu; the running maximum and its
\* coordinates change only in a step of that goroutine, to the value and the
\* coordinates of its cell and only to a larger value; and a step that assigns
\* to a matrix cell is never the step of the goroutine holding mu.
C25_MutexGuardedMaximum ==
    /\ [](ParCall =>
            /\ Cardinality(InCritical) <= 1
            /\ \A w \in DOMAIN g : g[w].pc = "crit" <=> mu = w
            /\ InCritical = {} <=> mu = 0)
    /\ [][(ParCall /\ MaxRecord' # MaxRecord) =>
            /\ mu \in InCritical
            /\ g'[mu].pc # "crit"
            /\ mu' = 0
            /\ fill'.maxScore > fill.maxScore
            /\ fill'.maxScore = fill.matrix[g[mu].i][mu - g[mu].i]
            /\ fill'.maxRow = g[mu].i
            /\ fill'.maxCol = mu - g[mu].i]_vars
    /\ [][(ParCall /\ (writes' # writes \/ fill'.matrix # fill.matrix)) =>
            \E w \in DOMAIN g :
                /\ g[w].pc = "loop"
                /\ g'[w] # g[w]
                /\ mu # w
                /\ mu' = mu]_vars

\* a goroutine holds mu while another one, having written a positive cell,
\* waits in mu.Lock()
C25_Witness ==
    /\ ParCall
    /\ \E w \in DOMAIN g, x \in DOMAIN g :
           /\ g[w].pc = "crit"
           /\ mu = w
           /\ g[x].pc = "lock"
    /\ fill.maxScore > 0

\* C26: while ParallelSmithWaterman is in its traceback, and after it, no
\* wave goroutine is alive, no cell is assigned to and the running maximum
\* stays as it is; the call goes once from the sweep to the traceback and
\* once from the traceback to the return, and never back.
C26_FillBeforeTraceback ==
    /\ []((ParCall /\ pc = "traceback") =>
            /\ \A w \in DOMAIN g : g[w].pc = "done"
            /\ wg = 0
            /\ mu = 0
            /\ WrittenCells = InnerCells)
    /\ [][(ParCall /\ pc \in {"traceback", "done"}) =>
            /\ fill' = fill
            /\ writes' = writes
            /\ g' = g]_vars
    /\ [][(ParCall /\ pc' # pc) =>
            <<pc, pc'>> \in {<<"entry", "sweep">>, <<"sweep", "traceback">>,
                             <<"traceback", "done">>, <<"entry", "done">>}]_vars

\* parallelTraceback has taken a step after the goroutines of three waves or
\* more have finished
C26_Witness ==
    /\ ParCall
    /\ pc = "traceback"
    /\ tb.alignedQuery # <<>>
    /\ Cardinality(DOMAIN g) >= 3
    /\ \A w \in DOMAIN g : g[w].pc = "done"

\* C27: every fair execution of ParallelSmithWaterman returns, and when the
\* call has returned every goroutine it started has finished (so each has
\* left its last mu.Lock()/mu.Unlock() pair), mu is free and the WaitGroup
\* counter is 0.
C27_ParallelCompletion ==
    /\ <>ParDone
    /\ [](ParDone =>
            /\ \A w \in DOMAIN g : g[w].pc \in {"unborn", "done"}
            /\ mu = 0
            /\ wg = 0)

\* ParallelSmithWaterman has returned on the wavefront path with a positive
\* maximum, entered under mu, after the goroutines of three waves or more
C27_Witness ==
    /\ ParDone
    /\ Cardinality(DOMAIN g) >= 3
    /\ \A w \in DOMAIN g : g[w].pc = "done"
    /\ result.MaxScore > 0

\* C28: results changes, once it is made, only in the step in which the
\* goroutine started for references[k] stores its alignment; that step
\* changes slot k, which nobody has written before, and no other slot; a
\* goroutine takes that step once, never coming back to it; and when the
\* batch returns results every goroutine has taken it and has finished.
C28_IndexPartitionedWrites ==
    /\ [](BatchCall =>
            /\ pc # "entry" =>
                  \A k \in DOMAIN u :
                      (k \in Aligned) <=> (results[k] # ZeroResult)
            /\ pc = "done" => \A k \in DOMAIN u : u[k] = "done")
    /\ [][(BatchCall /\ pc # "entry" /\ results' # results) =>
            \E k \in DOMAIN u :
                /\ u[k] = "run"
                /\ u'[k] = "release"
                /\ results[k] = ZeroResult
                /\ \A x \in DOMAIN results \ {k} : results'[x] = results[x]]_vars
    /\ [][BatchCall =>
            \A k \in DOMAIN u :
                /\ (u[k] = "run" /\ u'[k] # "run") => results'[k] # ZeroResult
                /\ u[k] \in {"release", "finish", "done"} =>
                      u'[k] \in {"release", "finish", "done"}]_vars

\* the batch has returned two slots or more, each holding the alignment
\* of its own reference, with different alignments in the first two
C28_Witness ==
    /\ BatchDone
    /\ Len(references) >= 2
    /\ \A k \in DOMAIN u : results[k] = SmithWaterman(query, references[k])
    /\ results[1] # results[2]

\* C29: when ParallelSmithWaterman returns from the wavefront path, MaxScore
\* is the largest value of the returned ScoreMatrix, whatever the order in
\* which the goroutines ran; a positive MaxScore stands in the cell
\* (MaxRow, MaxCol), which is a cell the goroutines fill, and a MaxScore of 0
\* comes with the coordinates (0, 0).
C29_MaximumOfReturnedMatrix ==
    (ParDone /\ ~UseSequential(Len(query), Len(reference))) =>
        /\ \A c \in Cells : result.ScoreMatrix[c[1]][c[2]] <= result.MaxScore
        /\ \E c \in Cells : result.ScoreMatrix[c[1]][c[2]] = result.MaxScore
        /\ result.MaxScore > 0 =>
              /\ <<result.MaxRow, result.MaxCol>> \in InnerCells
              /\ result.ScoreMatrix[result.MaxRow][result.MaxCol] = result.MaxScore
        /\ result.MaxScore = 0 => (result.MaxRow = 0 /\ result.MaxCol = 0)

\* ParallelSmithWaterman has returned from the wavefront path a positive
\* MaxScore with a matrix that is not the one SmithWaterman computes: some
\* goroutine read a neighbour before it was written
C29_Witness ==
    /\ ParDone
    /\ ~UseSequential(Len(query), Len(reference))
    /\ result.MaxScore > 0
    /\ result.ScoreMatrix # SmithWaterman(query, reference).ScoreMatrix

\* C30: once the goroutines of the wavefront path of ParallelSmithWaterman
\* have finished, each cell of the matrix is at most the cell SmithWaterman
\* computes for the same inputs, and so is the maximum; the returned
\* ScoreMatrix and MaxScore are bounded in the same way.
C30_ParallelAtMostSequential ==
    (/\ ParCall
     /\ pc \in {"traceback", "done"}
     /\ ~UseSequential(Len(query), Len(reference))) =>
        LET sw == SmithWaterman(query, reference)
        IN  /\ \A c \in Cells :
                  fill.matrix[c[1]][c[2]] <= sw.ScoreMatrix[c[1]][c[2]]
            /\ fill.maxScore <= sw.MaxScore
            /\ pc = "done" =>
                  /\ \A c \in Cells :
                        result.ScoreMatrix[c[1]][c[2]] <= sw.ScoreMatrix[c[1]][c[2]]
                  /\ result.MaxScore <= sw.MaxScore

\* ParallelSmithWaterman has returned from the wavefront path a MaxScore
\* below the one SmithWaterman returns for the same inputs
C30_Witness ==
    /\ ParDone
    /\ ~UseSequential(Len(query), Len(reference))
    /\ result.MaxScore < SmithWaterman(query, reference).MaxScore

\* C31: in every state of a call of ParallelSmithWaterman that took the
\* wavefront path, while goroutines are still filling as much as after the
\* return, every cell of the shared matrix is >= 0 and so is the running
\* maximum; the returned ScoreMatrix and MaxScore are >= 0 as well.
C31_NonNegativeWhileFilling ==
    (ParCall /\ ~UseSequential(Len(query), Len(reference))) =>
        /\ \A c \in Cells : fill.matrix[c[1]][c[2]] >= 0
        /\ fill.maxScore >= 0
        /\ pc = "done" =>
              /\ \A c \in Cells : result.ScoreMatrix[c[1]][c[2]] >= 0
              /\ result.MaxScore >= 0

\* the fill is under way: a goroutine stands in its loop after it has written
\* a cell with 0, computed from a mismatch, while another cell is positive
\* and a later wave has not been started
C31_Witness ==
    /\ ParCall
    /\ pc = "sweep"
    /\ \E w \in DOMAIN g : g[w].pc = "unborn"
    /\ \E e \in DOMAIN writes :
          /\ fill.matrix[e[2]][e[3]] = 0
          /\ query[e[2]] # reference[e[3]]
          /\ g[e[1]].pc = "loop"
    /\ \E c \in InnerCells : fill.matrix[c[1]][c[2]] > 0

\* C32: the score calculateAlignmentScore gives to the two aligned strings
\* SmithWaterman returns (MatchScore for a column of two equal symbols,
\* MismatchScore for one of two different symbols, GapPenalty for one with a
\* gap marker) is MaxScore; and at every moment of the traceback the score
\* of the columns written so far plus the value of the cell the traceback
\* stands on is the maximum found by the fill.
C32_AlignmentScoreIsMaxScore ==
    /\ SWDone =>
         calculateAlignmentScore(result.AlignedQuery, result.AlignedRef)
             = result.MaxScore
    /\ (call = "SmithWaterman" /\ pc = "traceback") =>
         calculateAlignmentScore(tb.alignedQuery, tb.alignedRef)
             + fill.matrix[tb.row][tb.col] = fill.maxScore

\* SmithWaterman has returned an alignment with a column of two different
\* symbols between columns of equal symbols
C32_Witness ==
    /\ SWDone
    /\ result.MaxScore = 2 * MatchScore + MismatchScore
    /\ \E k \in 1..Len(result.AlignedQuery) :
          /\ result.AlignedQuery[k] # Gap
          /\ result.AlignedRef[k] # Gap
          /\ result.AlignedQuery[k] # result.AlignedRef[k]

\* C33: the semaphore channel of ConcurrentSmithWatermanBatch holds one token
\* for every goroutine that was started and has not run its deferred
\* receive, and never more than its capacity; a token goes in only with the
\* start of a goroutine and comes out only in the deferred receive of a
\* goroutine, which that goroutine runs once, before its wg.Done(); the
\* WaitGroup counter counts the goroutines that have not run wg.Done(); and
\* close(semaphore) runs on an empty channel that is not touched afterwards.
C33_PermitAccounting ==
    /\ [](BatchCall =>
            /\ semaphore = Cardinality(InFlight)
            /\ pc # "entry" => semaphore <= numWorkers
            /\ wg = Cardinality({k \in DOMAIN u : u[k] \in {"run", "release", "finish"}})
            /\ closed =>
                  /\ semaphore = 0
                  /\ \A k \in DOMAIN u : u[k] = "done")
    /\ [][BatchCall =>
            /\ semaphore' > semaphore =>
                  /\ semaphore' = semaphore + 1
                  /\ \E k \in DOMAIN u : u[k] = "unborn" /\ u'[k] = "run"
            /\ semaphore' < semaphore =>
                  /\ semaphore' = semaphore - 1
                  /\ \E k \in DOMAIN u : u[k] = "release" /\ u'[k] = "finish"
            /\ \A k \in DOMAIN u :
                  /\ u'[k] = "finish" /\ u[k] # "finish" =>
                        u[k] = "release" /\ semaphore' = semaphore - 1
                  /\ u'[k] = "done" /\ u[k] # "done" =>
                        u[k] = "finish" /\ wg' = wg - 1 /\ semaphore' = semaphore
            /\ closed => (closed' /\ semaphore' = semaphore /\ u' = u)]_vars

\* one goroutine has given its permit back and has not yet run wg.Done()
\* while another one still holds its permit
C33_Witness ==
    /\ BatchCall
    /\ closed = FALSE
    /\ semaphore = 1
    /\ \E k \in DOMAIN u : u[k] = "finish"
    /\ \E k \in DOMAIN u : u[k] \in {"run", "release"}

\* C34: when the alignment SmithWaterman returns is not empty, its first
\* column and its last column each hold the same symbol twice, no gap
\* marker; and MaxScore is 0 exactly when both aligned strings are empty.
C34_AlignmentEndsAreMatches ==
    SWDone =>
        LET aq == result.AlignedQuery
            ar == result.AlignedRef
        IN  /\ aq # <<>> =>
                  /\ aq[1] # Gap
                  /\ aq[1] = ar[1]
                  /\ aq[Len(aq)] # Gap
                  /\ aq[Len(aq)] = ar[Len(ar)]
            /\ (result.MaxScore = 0) <=> (aq = <<>> /\ ar = <<>>)

\* SmithWaterman has returned an alignment of two columns or more that
\* leaves out a symbol of the query and a symbol of the reference which it
\* could only have taken as a mismatch or against a gap marker
C34_Witness ==
    /\ SWDone
    /\ Len(result.AlignedQuery) >= 2
    /\ Len(StripGaps(result.AlignedQuery)) < Len(query)
    /\ Len(StripGaps(result.AlignedRef)) < Len(reference)

\* C35: in the matrix SmithWaterman's fill has produced every positive cell
\* outside row 0 and column 0 equals its diagonal term, its up term or its
\* left term; so on every cell where the traceback loop runs an iteration
\* one of the three branches applies, and the loop is left only because its
\* condition fails, never through the final else with its break.
C35_BreakUnreachable ==
    /\ []((call = "SmithWaterman" /\ pc \in {"traceback", "done"}) =>
            /\ \A c \in InnerCells :
                  fill.matrix[c[1]][c[2]] > 0 =>
                      fill.matrix[c[1]][c[2]] \in
                          {DiagTerm(c[1], c[2]), UpTerm(c[1], c[2]),
                           LeftTerm(c[1], c[2])}
            /\ (pc = "traceback" /\ tracebackCond(fill.matrix, tb)) =>
                  tracebackBranch(fill.matrix, query, reference, tb) # "break")
    /\ [][(call = "SmithWaterman" /\ pc = "traceback" /\ pc' = "done") =>
            ~tracebackCond(fill.matrix, tb)]_vars

\* the traceback stands on a positive cell that equals its left term only:
\* the last branch before the final else is the one that applies
C35_Witness ==
    /\ call = "SmithWaterman"
    /\ pc = "traceback"
    /\ tracebackCond(fill.matrix, tb)
    /\ fill.matrix[tb.row][tb.col] # DiagTerm(tb.row, tb.col)
    /\ fill.matrix[tb.row][tb.col] # UpTerm(tb.row, tb.col)
    /\ fill.matrix[tb.row][tb.col] = LeftTerm(tb.row, tb.col)

====
